---- MODULE Spec2Model ----
(***************************************************************************)
(* Model of the donation search page (src/src/App.js, the second, current  *)
(* component of the file, lines 290-670; src/unnamed/part_000 is an older  *)
(* revision of the same component).                                        *)
(*                                                                         *)
(* A JavaScript string is a sequence of one-character strings, so that     *)
(* toLowerCase, includes, split, replace, parseFloat and the relational    *)
(* operators on strings are computed character by character.               *)
(***************************************************************************)
EXTENDS Integers, Sequences, FiniteSets, TLC

VARIABLES
    provincialResults,   \* rows the CSV parser delivers for ./data.csv
    federalResults,      \* rows the CSV parser delivers for ./federaldata.csv
    loadStage,           \* position of the nested Papa.parse callbacks
    provincialData,      \* closure variable of the first `complete` callback
    csvData,             \* useState([])            : the merged collection
    searchTerm,          \* useState('')            : the input's value
    debouncedSearch,     \* useDebounce's state     : the applied query
    timers,              \* pending setTimeout handlers of useDebounce (captured values)
    sortConfig,          \* useState({ key: null, order: 'asc' })
    lastHeader,          \* argument of the most recent handleSortClick call
    filteredData,        \* useMemo, deps [debouncedSearch, csvData]
    sortedFilteredData,  \* useMemo, deps [filteredData, sortData]
    partyTotals          \* useMemo, deps [sortedFilteredData]

vars == <<provincialResults, federalResults, loadStage, provincialData, csvData,
          searchTerm, debouncedSearch, timers, sortConfig, lastHeader,
          filteredData, sortedFilteredData, partyTotals>>

---------------------------------------------------------------------------
(* Bounds of the model *)

\* most rows over both sources together
MaxRows == 2
\* most rows over both sources in the sorting runs (a tie needs a third row)
MaxSortRows == 3
\* decimal places kept by the fixed-point image of a JavaScript number
FracDigits == 2

---------------------------------------------------------------------------
(* Characters and JavaScript string built-ins *)

Range(s) == { s[i] : i \in 1..Len(s) }

UpperChars == <<"A","B","C","D","E","F","G","H","I","J","K","L","M",
                "N","O","P","Q","R","S","T","U","V","W","X","Y","Z">>
LowerChars == <<"a","b","c","d","e","f","g","h","i","j","k","l","m",
                "n","o","p","q","r","s","t","u","v","w","x","y","z">>
DigitChars == <<"0","1","2","3","4","5","6","7","8","9">>
\* the characters /\s/ matches, among those of the model
WhiteSpace == {" ", "\t"}

IndexOf(s, c) == CHOOSE i \in 1..Len(s) : s[i] = c

\* the characters of the model, each with its UTF-16 code unit
Punctuation ==
    <<<<"\t", 9>>, <<" ", 32>>, <<"$", 36>>, <<"(", 40>>, <<")", 41>>, <<"+", 43>>,
      <<",", 44>>, <<"-", 45>>, <<".", 46>>, <<"/", 47>>>>
UpperSet == Range(UpperChars)
LowerSet == Range(LowerChars)
DigitSet == Range(DigitChars)
PunctuationSet == { Punctuation[i][1] : i \in 1..Len(Punctuation) }
Chars == UpperSet \cup LowerSet \cup DigitSet \cup PunctuationSet

\* String.prototype.charCodeAt, per character
charCode ==
    [c \in Chars |->
        IF c \in UpperSet THEN 64 + IndexOf(UpperChars, c)
        ELSE IF c \in LowerSet THEN 96 + IndexOf(LowerChars, c)
        ELSE IF c \in DigitSet THEN 47 + IndexOf(DigitChars, c)
        ELSE Punctuation[CHOOSE i \in 1..Len(Punctuation) : Punctuation[i][1] = c][2]]

\* toLowerCase, per character
lowerChar ==
    [c \in Chars |-> IF c \in UpperSet THEN LowerChars[IndexOf(UpperChars, c)] ELSE c]

\* String.prototype.toLowerCase
toLowerCase(s) == [i \in 1..Len(s) |-> lowerChar[s[i]]]

\* String.prototype.includes
includes(s, t) ==
    \E i \in 0..(Len(s) - Len(t)) : SubSeq(s, i + 1, i + Len(t)) = t

\* a < b on strings: lexicographic by code unit, a proper prefix first
RECURSIVE strLess(_, _)
strLess(a, b) ==
    IF b = <<>> THEN FALSE
    ELSE IF a = <<>> THEN TRUE
    ELSE IF Head(a) = Head(b) THEN strLess(Tail(a), Tail(b))
    ELSE charCode[Head(a)] < charCode[Head(b)]

\* s.replace(/[$,]/g, '')
stripMoney(s) == SelectSeq(s, LAMBDA c : c \notin {"$", ","})

RECURSIVE dropWhiteSpace(_)
dropWhiteSpace(s) ==
    IF s # <<>> /\ Head(s) \in WhiteSpace THEN dropWhiteSpace(Tail(s)) ELSE s

\* s.split(/\s+/): the pieces between maximal runs of white space; a run at
\* the start or at the end of s leaves an empty piece there
RECURSIVE splitWhiteSpace(_, _)
splitWhiteSpace(s, piece) ==
    IF s = <<>> THEN <<piece>>
    ELSE IF Head(s) \in WhiteSpace
         THEN <<piece>> \o splitWhiteSpace(dropWhiteSpace(s), <<>>)
         ELSE splitWhiteSpace(Tail(s), Append(piece, Head(s)))

\* s.split(/\s+/, limit)
split(s, limit) ==
    LET all == splitWhiteSpace(s, <<>>)
    IN  SubSeq(all, 1, IF Len(all) < limit THEN Len(all) ELSE limit)

\* the value `undefined`; no string of the model equals it
Undefined == <<"undefined">>

\* !x for x a string or undefined
falsy(x) == x = Undefined \/ x = <<>>

\* x || y for strings
orElse(x, y) == IF falsy(x) THEN y ELSE x

---------------------------------------------------------------------------
(* JavaScript numbers: NaN, or a decimal kept as an integer count of       *)
(* 10^-FracDigits.  The field values of the model carry at most FracDigits *)
(* decimal places, no exponent part and never the word Infinity, so        *)
(* the image is exact.                                                      *)

RECURSIVE pow10(_)
pow10(n) == IF n = 0 THEN 1 ELSE 10 * pow10(n - 1)

NaN == [nan |-> TRUE, val |-> 0]
num(v) == [nan |-> FALSE, val |-> v]
isNaN(x) == x.nan

\* length of the longest run of digits that starts at position i of s
RECURSIVE digitRun(_, _)
digitRun(s, i) ==
    IF i <= Len(s) /\ s[i] \in DigitSet THEN 1 + digitRun(s, i + 1) ELSE 0

\* value of the digits s[i..j]
RECURSIVE digitsValue(_, _, _)
digitsValue(s, i, j) ==
    IF j < i THEN 0 ELSE 10 * digitsValue(s, i, j - 1) + (charCode[s[j]] - 48)

\* the literal that starts at position i of s, behind its sign: il integer
\* digits, then fl fraction digits behind a point
decimalValue(s, i, il, fl) ==
    LET kept == IF fl < FracDigits THEN fl ELSE FracDigits
    IN  digitsValue(s, i, i + il - 1) * pow10(FracDigits)
          + digitsValue(s, i + il + 1, i + il + kept) * pow10(FracDigits - kept)

unsignedLiteral(s, i, il, negative) ==
    LET fl == IF i + il <= Len(s) /\ s[i + il] = "." THEN digitRun(s, i + il + 1) ELSE 0
    IN  IF il = 0 /\ fl = 0 THEN NaN
        ELSE num(IF negative THEN 0 - decimalValue(s, i, il, fl)
                 ELSE decimalValue(s, i, il, fl))

signedLiteral(t) ==
    IF t # <<>> /\ Head(t) \in {"+", "-"}
    THEN unsignedLiteral(t, 2, digitRun(t, 2), Head(t) = "-")
    ELSE unsignedLiteral(t, 1, digitRun(t, 1), FALSE)

\* parseFloat: skips leading white space, reads the longest prefix that is a
\* decimal literal ([+-] digits [. digits] or [+-] . digits), ignores what
\* follows it; NaN when there is no such prefix
parseFloat(s) == signedLiteral(dropWhiteSpace(s))

\* x + y on numbers
plus(x, y) == IF x.nan \/ y.nan THEN NaN ELSE num(x.val + y.val)

---------------------------------------------------------------------------
(* String constants of the program *)

str_ConservativePartyOfCanada ==
    <<"C", "o", "n", "s", "e", "r", "v", "a", "t", "i", "v", "e", " ", "P", "a", "r",
      "t", "y", " ", "o", "f", " ", "C", "a", "n", "a", "d", "a">>
str_LiberalPartyOfCanada ==
    <<"L", "i", "b", "e", "r", "a", "l", " ", "P", "a", "r", "t", "y", " ", "o", "f",
      " ", "C", "a", "n", "a", "d", "a">>
str_NewDemocraticParty ==
    <<"N", "e", "w", " ", "D", "e", "m", "o", "c", "r", "a", "t", "i", "c", " ", "P",
      "a", "r", "t", "y">>
str_CPC == <<"C", "P", "C">>
str_LPC == <<"L", "P", "C">>
str_NDP_CA == <<"N", "D", "P", "-", "C", "A">>
str_pc == <<"p", "c">>
str_cpc == <<"c", "p", "c">>
str_nsndp == <<"n", "s", "n", "d", "p">>
str_ndp_ca == <<"n", "d", "p", "-", "c", "a">>
str_ndp == <<"n", "d", "p">>
str_liberal == <<"l", "i", "b", "e", "r", "a", "l">>
str_lpc == <<"l", "p", "c">>
str_0 == <<"0">>
str_green == <<"g", "r", "e", "e", "n">>
str_atlantica == <<"a", "t", "l", "a", "n", "t", "i", "c", "a">>

---------------------------------------------------------------------------
(* Rows *)

\* the unified columns, in their fixed order
allColumns ==
    <<"Last Name", "First Name", "Postal Code", "City", "Party",
      "Specific Campaign", "Date", "Donation">>

\* row[k]: undefined for a key the row lacks
field(row, k) == IF k \in DOMAIN row THEN row[k] ELSE Undefined

\* x ?? y
nullish(x, y) == IF x = Undefined THEN y ELSE x

\* the provincial mapping without its `|| ''` defaults
provincialRowWithoutDefaults(row) ==
    ("Last Name" :> field(row, "Last Name"))
 @@ ("First Name" :> field(row, "First Name"))
 @@ ("Postal Code" :> <<>>)
 @@ ("City" :> field(row, "Town"))
 @@ ("Party" :> field(row, "Party"))
 @@ ("Specific Campaign" :> field(row, "Specific Campaign"))
 @@ ("Date" :> field(row, "Year"))
 @@ ("Donation" :> field(row, "Amount"))

\* the mapping applied to each row of data.csv
provincialRow(row) ==
    ("Last Name" :> orElse(field(row, "Last Name"), <<>>))
 @@ ("First Name" :> orElse(field(row, "First Name"), <<>>))
 @@ ("Postal Code" :> <<>>)
 @@ ("City" :> orElse(field(row, "Town"), <<>>))
 @@ ("Party" :> orElse(field(row, "Party"), <<>>))
 @@ ("Specific Campaign" :> orElse(field(row, "Specific Campaign"), <<>>))
 @@ ("Date" :> orElse(field(row, "Year"), <<>>))
 @@ ("Donation" :> orElse(field(row, "Amount"), <<>>))

\* the mapping applied to each row of federaldata.csv; the three `if`s run in
\* sequence on the variable `party`, and the two `if`s that follow the
\* Conservative test on `recipient` test and assign `party` again
federalRow(row) ==
    LET party0 == orElse(field(row, "Party"), <<>>)
        party1 == IF includes(party0, str_ConservativePartyOfCanada)
                  THEN str_CPC ELSE party0
        party2 == IF includes(party1, str_LiberalPartyOfCanada)
                  THEN str_LPC ELSE party1
        party3 == IF includes(party2, str_NewDemocraticParty)
                  THEN str_NDP_CA ELSE party2
        recipient0 == orElse(field(row, "Recipient"), <<>>)
        recipient1 == IF includes(recipient0, str_ConservativePartyOfCanada)
                      THEN str_CPC ELSE recipient0
        party4 == IF includes(party3, str_LiberalPartyOfCanada)
                  THEN str_LPC ELSE party3
        party5 == IF includes(party4, str_NewDemocraticParty)
                  THEN str_NDP_CA ELSE party4
    IN  ("Last Name" :> orElse(field(row, "Last Name"), <<>>))
     @@ ("First Name" :> orElse(field(row, "First Name"), <<>>))
     @@ ("Postal Code" :> orElse(field(row, "Postal Code"), <<>>))
     @@ ("City" :> orElse(field(row, "City"), <<>>))
     @@ ("Party" :> party5)
     @@ ("Specific Campaign" :> recipient1)
     @@ ("Date" :> orElse(field(row, "Date_received"), <<>>))
     @@ ("Donation" :> orElse(field(row, "Monetary"), <<>>))

---------------------------------------------------------------------------
(* Search *)

\* the body of the filteredData memo
filteredDataOf(query, data) ==
    IF falsy(query) THEN <<>>
    ELSE
      LET parts == split(query, 2)
          lowered == [i \in 1..Len(parts) |-> toLowerCase(parts[i])]
          lastNameSearch == IF Len(lowered) >= 1 THEN lowered[1] ELSE Undefined
          firstNameSearch == IF Len(lowered) >= 2 THEN lowered[2] ELSE Undefined
          keep(row) ==
              LET rowLast == toLowerCase(orElse(field(row, "Last Name"), <<>>))
                  rowFirst == toLowerCase(orElse(field(row, "First Name"), <<>>))
              IN  IF falsy(firstNameSearch)
                  THEN includes(rowLast, lastNameSearch)
                  ELSE includes(rowLast, lastNameSearch)
                         /\ includes(rowFirst, firstNameSearch)
      IN  SelectSeq(data, keep)

---------------------------------------------------------------------------
(* Sort *)

\* sortConfig.key === null
Null == "null"

\* compare without its numeric branch: every pair is compared as text
compareAsText(a, b, key, order) ==
    LET aLow == toLowerCase(nullish(field(a, key), <<>>))
        bLow == toLowerCase(nullish(field(b, key), <<>>))
    IN  IF strLess(aLow, bLow) THEN (IF order = "asc" THEN 0 - 1 ELSE 1)
        ELSE IF strLess(bLow, aLow) THEN (IF order = "asc" THEN 1 ELSE 0 - 1)
        ELSE 0

\* the function passed to Array.prototype.sort; only its sign is used
compare(a, b, key, order) ==
    LET aVal == nullish(field(a, key), <<>>)
        bVal == nullish(field(b, key), <<>>)
        aNum == parseFloat(stripMoney(aVal))
        bNum == parseFloat(stripMoney(bVal))
        isNumericA == ~isNaN(aNum)
        isNumericB == ~isNaN(bNum)
        aLow == toLowerCase(aVal)
        bLow == toLowerCase(bVal)
    IN  IF isNumericA /\ isNumericB
        THEN IF order = "asc" THEN aNum.val - bNum.val ELSE bNum.val - aNum.val
        ELSE IF strLess(aLow, bLow) THEN (IF order = "asc" THEN 0 - 1 ELSE 1)
        ELSE IF strLess(bLow, aLow) THEN (IF order = "asc" THEN 1 ELSE 0 - 1)
        ELSE 0

\* ECMA-262, Array.prototype.sort: comparefn, whose results on the n elements
\* are c[i][j], is a consistent comparator for them
consistentComparator(c, n) ==
    /\ \A i \in 1..n : c[i][i] = 0
    /\ \A i, j \in 1..n : c[i][j] = 0 => c[j][i] = 0
    /\ \A i, j, k \in 1..n :
          /\ (c[i][j] = 0 /\ c[j][k] = 0) => c[i][k] = 0
          /\ (c[i][j] < 0 /\ c[j][k] < 0) => c[i][k] < 0
          /\ (c[i][j] > 0 /\ c[j][k] > 0) => c[i][k] > 0

\* one step of a stable sort of indices: x goes behind the last index whose
\* element is not greater
RECURSIVE insertSorted(_, _, _)
insertSorted(sorted, x, c) ==
    IF sorted = <<>> THEN <<x>>
    ELSE IF c[sorted[Len(sorted)]][x] > 0
         THEN Append(insertSorted(SubSeq(sorted, 1, Len(sorted) - 1), x, c),
                     sorted[Len(sorted)])
         ELSE Append(sorted, x)

\* the stable order of the first k indices
RECURSIVE stableOrder(_, _)
stableOrder(c, k) ==
    IF k = 0 THEN <<>> ELSE insertSorted(stableOrder(c, k - 1), k, c)

indexPermutations(n) ==
    { p \in [1..n -> 1..n] : \A i, j \in 1..n : p[i] = p[j] => i = j }

\* the orders of n elements a sort may produce when comparefn's results on
\* them are c[i][j]: the stable sort (ECMAScript 2019) when comparefn is a
\* consistent comparator for the elements, and an implementation-defined
\* order when it is not
sortOrders(c, n) ==
    IF consistentComparator(c, n) THEN { stableOrder(c, n) } ELSE indexPermutations(n)

permute(data, p) == [i \in 1..Len(data) |-> data[p[i]]]

\* the n by n table of comparefn's results on the elements of data
compareTable(data, key, order) ==
    [i \in 1..Len(data) |->
        [j \in 1..Len(data) |-> compare(data[i], data[j], key, order)]]

\* what [...data].sort(comparefn) may return (the table is bound by \in so
\* that it is computed once)
arraySort(data, key, order) ==
    UNION { { permute(data, p) : p \in sortOrders(c, Len(data)) } :
            c \in { compareTable(data, key, order) } }

\* sortData(data) under the sort configuration config: the arrays it may return
sortData(data, config) ==
    IF config.key = Null THEN { data }
    ELSE arraySort(data, config.key, config.order)

\* handleSortClick whose else branch is { ...prev, key: header }
handleSortClickKeepsOrder(prev, header) ==
    IF prev.key = header
    THEN [prev EXCEPT !.order = IF prev.order = "asc" THEN "desc" ELSE "asc"]
    ELSE [prev EXCEPT !.key = header]

\* the updater handleSortClick passes to setSortConfig
handleSortClick(prev, header) ==
    IF prev.key = header
    THEN [prev EXCEPT !.order = IF prev.order = "asc" THEN "desc" ELSE "asc"]
    ELSE [key |-> header, order |-> "asc"]

---------------------------------------------------------------------------
(* Totals *)

zeroTotals ==
    [pc |-> num(0), cpc |-> num(0), nsndp |-> num(0), ndp |-> num(0),
     ndpca |-> num(0), liberal |-> num(0), lpc |-> num(0)]

\* amountOf without its `|| 0`: a donation that does not parse stays NaN
amountOfWithoutDefault(row) ==
    parseFloat(stripMoney(orElse(field(row, "Donation"), str_0)))

\* parseFloat(amountStr.replace(/[$,]/g, '')) || 0, amountStr = row['Donation'] || '0'
amountOf(row) ==
    LET amountStr == orElse(field(row, "Donation"), str_0)
        parsed == parseFloat(stripMoney(amountStr))
    IN  IF isNaN(parsed) \/ parsed.val = 0 THEN num(0) ELSE parsed

\* addRow with the substring test for "ndp" ahead of the exact tests
addRowSubstringFirst(totals, row) ==
    LET amount == amountOf(row)
        p == toLowerCase(orElse(field(row, "Party"), <<>>))
    IN  IF includes(p, str_ndp) THEN [totals EXCEPT !.ndp = plus(@, amount)]
        ELSE IF p = str_pc THEN [totals EXCEPT !.pc = plus(@, amount)]
        ELSE IF p = str_cpc THEN [totals EXCEPT !.cpc = plus(@, amount)]
        ELSE IF p = str_nsndp THEN [totals EXCEPT !.nsndp = plus(@, amount)]
        ELSE IF p = str_ndp_ca THEN [totals EXCEPT !.ndpca = plus(@, amount)]
        ELSE IF includes(p, str_liberal) THEN [totals EXCEPT !.liberal = plus(@, amount)]
        ELSE IF includes(p, str_lpc) THEN [totals EXCEPT !.lpc = plus(@, amount)]
        ELSE totals

\* addRow with `if` in place of `else if` for the two substring tests
addRowFallthrough(totals, row) ==
    LET amount == amountOf(row)
        p == toLowerCase(orElse(field(row, "Party"), <<>>))
        exact == IF p = str_pc THEN [totals EXCEPT !.pc = plus(@, amount)]
                 ELSE IF p = str_cpc THEN [totals EXCEPT !.cpc = plus(@, amount)]
                 ELSE IF p = str_nsndp THEN [totals EXCEPT !.nsndp = plus(@, amount)]
                 ELSE IF p = str_ndp_ca THEN [totals EXCEPT !.ndpca = plus(@, amount)]
                 ELSE IF p = str_ndp THEN [totals EXCEPT !.ndp = plus(@, amount)]
                 ELSE totals
        lib == IF includes(p, str_liberal)
               THEN [exact EXCEPT !.liberal = plus(@, amount)] ELSE exact
    IN  IF includes(p, str_lpc) THEN [lib EXCEPT !.lpc = plus(@, amount)] ELSE lib

\* the body of the forEach callback of getPartyTotals
addRow(totals, row) ==
    LET amount == amountOf(row)
        p == toLowerCase(orElse(field(row, "Party"), <<>>))
    IN  IF p = str_pc THEN [totals EXCEPT !.pc = plus(@, amount)]
        ELSE IF p = str_cpc THEN [totals EXCEPT !.cpc = plus(@, amount)]
        ELSE IF p = str_nsndp THEN [totals EXCEPT !.nsndp = plus(@, amount)]
        ELSE IF p = str_ndp_ca THEN [totals EXCEPT !.ndpca = plus(@, amount)]
        ELSE IF p = str_ndp THEN [totals EXCEPT !.ndp = plus(@, amount)]
        ELSE IF includes(p, str_liberal) THEN [totals EXCEPT !.liberal = plus(@, amount)]
        ELSE IF includes(p, str_lpc) THEN [totals EXCEPT !.lpc = plus(@, amount)]
        ELSE totals

RECURSIVE forEachRow(_, _)
forEachRow(totals, data) ==
    IF data = <<>> THEN totals
    ELSE forEachRow(addRow(totals, Head(data)), Tail(data))

getPartyTotals(data) == forEachRow(zeroTotals, data)

---------------------------------------------------------------------------
(* Row colors *)

\* getRowColor(partyValue); the colors are the literals it returns
getRowColor(partyValue) ==
    LET p == toLowerCase(partyValue)
    IN  IF p = str_cpc THEN "#639ee0"
        ELSE IF p = str_lpc THEN "#9d0001"
        ELSE IF p = str_pc THEN "#00becf"
        ELSE IF includes(p, str_liberal) THEN "red"
        ELSE IF includes(p, str_ndp) THEN "orange"
        ELSE IF includes(p, str_green) THEN "green"
        ELSE IF includes(p, str_atlantica) THEN "purple"
        ELSE ""

\* the backgroundColor of a table row: getRowColor(row['Party'] || '')
rowColor(row) == getRowColor(orElse(field(row, "Party"), <<>>))

---------------------------------------------------------------------------
(* The component: state after the first render, and its handlers *)

\* a render whose filteredData memo depends on [debouncedSearch] alone
RenderWithoutCsvDataDependency(filterDepsChanged, sortDepsChanged) ==
    /\ filteredData' = IF filterDepsChanged /\ debouncedSearch' # debouncedSearch
                       THEN filteredDataOf(debouncedSearch', csvData')
                       ELSE filteredData
    /\ sortedFilteredData' \in IF filterDepsChanged \/ sortDepsChanged
                               THEN sortData(filteredData', sortConfig')
                               ELSE { sortedFilteredData }
    /\ partyTotals' = getPartyTotals(sortedFilteredData')

\* a render after a state change: each memo is recomputed when one of its
\* dependencies changed, and kept otherwise
Render(filterDepsChanged, sortDepsChanged) ==
    /\ filteredData' = IF filterDepsChanged
                       THEN filteredDataOf(debouncedSearch', csvData')
                       ELSE filteredData
    /\ sortedFilteredData' \in IF filterDepsChanged \/ sortDepsChanged
                               THEN sortData(filteredData', sortConfig')
                               ELSE { sortedFilteredData }
    /\ partyTotals' = getPartyTotals(sortedFilteredData')

\* `complete` of the first parse as the older revision wrote it: it assigns the
\* rows of its own source to csvData as soon as they arrive
ProvincialCompleteAssignsCsvData ==
    /\ loadStage = "provincial"
    /\ provincialData' = [i \in 1..Len(provincialResults) |->
                              provincialRow(provincialResults[i])]
    /\ csvData' = provincialData'
    /\ loadStage' = "federal"
    /\ UNCHANGED <<provincialResults, federalResults, searchTerm,
                   debouncedSearch, timers, sortConfig, lastHeader>>
    /\ Render(TRUE, FALSE)

\* `complete` of Papa.parse('./data.csv'): maps the rows, starts the second parse
ProvincialComplete ==
    /\ loadStage = "provincial"
    /\ provincialData' = [i \in 1..Len(provincialResults) |->
                              provincialRow(provincialResults[i])]
    /\ loadStage' = "federal"
    /\ UNCHANGED <<provincialResults, federalResults, csvData, searchTerm,
                   debouncedSearch, timers, sortConfig, lastHeader,
                   filteredData, sortedFilteredData, partyTotals>>

\* `complete` of Papa.parse('./federaldata.csv'): maps the rows, setCsvData(combined)
FederalComplete ==
    /\ loadStage = "federal"
    /\ LET federalData == [i \in 1..Len(federalResults) |->
                              federalRow(federalResults[i])]
           combined == provincialData \o federalData
       IN  csvData' = combined
    /\ loadStage' = "done"
    /\ UNCHANGED <<provincialResults, federalResults, provincialData, searchTerm,
                   debouncedSearch, timers, sortConfig, lastHeader>>
    /\ Render(TRUE, FALSE)

\* the effect without its cleanup: the previous timer stays pending
useDebounceEffectWithoutCleanup(pending, value) == pending \cup { value }

\* the effect that only runs the cleanup: no timer is set for the new value
useDebounceEffectWithoutTimer(pending, value) == {}

\* the effect of useDebounce after `value` changed: the cleanup of the previous
\* effect clears its timer, then a timer capturing the new value is set
useDebounceEffect(pending, value) == { value }

\* onChange of the input: setSearchTerm(e.target.value), then the effect
ChangeInput(value) ==
    /\ value # searchTerm
    /\ searchTerm' = value
    /\ timers' = useDebounceEffect(timers, value)
    /\ UNCHANGED <<provincialResults, federalResults, loadStage, provincialData,
                   csvData, debouncedSearch, sortConfig, lastHeader,
                   filteredData, sortedFilteredData, partyTotals>>

\* a pending timer fires: setDebouncedValue(value) with the value it captured
TimerFire(value) ==
    /\ value \in timers
    /\ timers' = timers \ { value }
    /\ debouncedSearch' = value
    /\ UNCHANGED <<provincialResults, federalResults, loadStage, provincialData,
                   csvData, searchTerm, sortConfig, lastHeader>>
    /\ Render(debouncedSearch' # debouncedSearch, FALSE)

\* a header click whose sort runs on csvData itself instead of on a copy of
\* the filtered rows
HeaderClickSortsInPlace(header) ==
    /\ ~falsy(debouncedSearch)
    /\ sortConfig' = handleSortClick(sortConfig, header)
    /\ lastHeader' = header
    /\ csvData' \in sortData(csvData, sortConfig')
    /\ UNCHANGED <<provincialResults, federalResults, loadStage, provincialData,
                   searchTerm, debouncedSearch, timers>>
    /\ Render(TRUE, TRUE)

\* onClick of a column header; the table is rendered only while
\* debouncedSearch is truthy
HeaderClick(header) ==
    /\ ~falsy(debouncedSearch)
    /\ sortConfig' = handleSortClick(sortConfig, header)
    /\ lastHeader' = header
    /\ UNCHANGED <<provincialResults, federalResults, loadStage, provincialData,
                   csvData, searchTerm, debouncedSearch, timers>>
    /\ Render(FALSE, TRUE)

\* the steps of the page when the user types queries of Q and clicks headers of H
NextOver(Q, H) ==
    \/ ProvincialComplete
    \/ FederalComplete
    \/ \E value \in Q : ChangeInput(value)
    \/ \E value \in timers : TimerFire(value)
    \/ \E header \in H : HeaderClick(header)

SeqsUpTo(S, n) == UNION { [1..k -> S] : k \in 0..n }

\* the state after mount, the two files holding at most n rows of P and F
InitOver(P, F, n) ==
    /\ provincialResults \in SeqsUpTo(P, n)
    /\ federalResults \in SeqsUpTo(F, n)
    /\ Len(provincialResults) + Len(federalResults) <= n
    /\ loadStage = "provincial"
    /\ provincialData = <<>>
    /\ csvData = <<>>
    /\ searchTerm = <<>>
    /\ debouncedSearch = <<>>
    /\ timers = { <<>> }
    /\ sortConfig = [key |-> Null, order |-> "asc"]
    /\ lastHeader = Null
    /\ filteredData = <<>>
    /\ sortedFilteredData = <<>>
    /\ partyTotals = zeroTotals

---------------------------------------------------------------------------
(* Inputs of the model: field values, file rows and queries *)

in_Smith == <<"S", "m", "i", "t", "h">>
in_SMITHERS == <<"S", "M", "I", "T", "H", "E", "R", "S">>
in_Jones == <<"J", "o", "n", "e", "s">>
in_John == <<"J", "o", "h", "n">>
in_joanna == <<"j", "o", "a", "n", "n", "a">>
in_Jo == <<"J", "o">>
in_Halifax == <<"H", "a", "l", "i", "f", "a", "x">>
in_Truro == <<"T", "r", "u", "r", "o">>
in_2019 == <<"2", "0", "1", "9">>
in_2021_03_04 == <<"2", "0", "2", "1", "-", "0", "3", "-", "0", "4">>
in_B3H == <<"B", "3", "H", " ", "1", "A", "1">>
in_PC == <<"P", "C">>
in_NSNDP == <<"N", "S", "N", "D", "P">>
in_ndp == <<"n", "d", "p">>
in_NS_NDP == <<"N", "S", " ", "N", "D", "P">>
in_Liberal == <<"L", "i", "b", "e", "r", "a", "l">>
in_LPC_Liberal == <<"L", "P", "C", " ", "L", "i", "b", "e", "r", "a", "l">>
in_Green == <<"G", "r", "e", "e", "n">>
in_GreenPartyOfCanada ==
    <<"G", "r", "e", "e", "n", " ", "P", "a", "r", "t", "y", " ", "o", "f", " ", "C",
      "a", "n", "a", "d", "a">>
in_HalifaxCampaign ==
    <<"H", "a", "l", "i", "f", "a", "x", " ", "C", "a", "m", "p", "a", "i", "g", "n">>
in_CPCHalifax ==
    <<"C", "o", "n", "s", "e", "r", "v", "a", "t", "i", "v", "e", " ", "P", "a", "r",
      "t", "y", " ", "o", "f", " ", "C", "a", "n", "a", "d", "a", " ", "H", "a", "l",
      "i", "f", "a", "x">>
in_amt_1200_50 == <<"$", "1", ",", "2", "0", "0", ".", "5", "0">>
in_amt_100 == <<"$", "1", "0", "0">>
in_amt_abc == <<"a", "b", "c">>
in_amt_neg50 == <<"-", "$", "5", "0">>
in_amt_250 == <<"2", "5", "0">>
in_val_1200 == <<"$", "1", ",", "2", "0", "0", ".", "0", "0">>
in_val_300_50 == <<"$", "3", "0", "0", ".", "5", "0">>
in_val_300_5 == <<"3", "0", "0", ".", "5">>
in_val_apple == <<"a", "p", "p", "l", "e">>
in_val_Apple == <<"A", "p", "p", "l", "e">>
in_val_10 == <<"1", "0">>
in_val_20 == <<"$", "2", "0">>
in_val_a == <<"$", "a">>
in_val_12main == <<"1", "2", " ", "M", "a", "i", "n">>
q_blank == <<" ">>
q_s == <<"s">>
q_smith == <<"s", "m", "i", "t", "h">>
q_Smith_John == <<"S", "m", "i", "t", "h", " ", " ", "J", "o", "h", "n">>
q_lead_john == <<" ", "j", "o", "h", "n">>
q_smith_jo_x == <<"s", "m", "i", "t", "h", " ", "j", "o", " ", "x">>
q_ITH == <<"I", "T", "H">>
q_smith_tab == <<"s", "m", "i", "t", "h", "\t">>

\* a row of data.csv with every column of its header
provincialCsvRow(last, first, party, amount) ==
    ("Last Name" :> last) @@ ("First Name" :> first) @@ ("Town" :> in_Halifax)
 @@ ("Party" :> party) @@ ("Specific Campaign" :> in_HalifaxCampaign)
 @@ ("Year" :> in_2019) @@ ("Amount" :> amount)

\* a row of federaldata.csv with every column of its header
federalCsvRow(last, first, party, monetary) ==
    ("Last Name" :> last) @@ ("First Name" :> first) @@ ("Postal Code" :> in_B3H)
 @@ ("City" :> in_Truro) @@ ("Party" :> party) @@ ("Recipient" :> in_CPCHalifax)
 @@ ("Date_received" :> in_2021_03_04) @@ ("Monetary" :> monetary)

\* the page as a whole: a few rows of each file, some lacking columns
MainProvincial ==
    { provincialCsvRow(in_Smith, in_John, in_PC, in_amt_1200_50),
      provincialCsvRow(in_SMITHERS, in_joanna, in_NSNDP, in_amt_100),
      ("Last Name" :> in_Jones) @@ ("Party" :> in_Liberal) }
MainFederal ==
    { federalCsvRow(in_Smith, in_John, str_ConservativePartyOfCanada, in_amt_250),
      federalCsvRow(in_Jones, in_Jo, str_LiberalPartyOfCanada, in_amt_100),
      ("Last Name" :> in_Smith) @@ ("Recipient" :> str_NewDemocraticParty) }
MainQueries == { <<>>, q_blank, q_smith, q_Smith_John }

\* search: rows that differ in their names, queries of every shape
SearchProvincial ==
    { provincialCsvRow(in_Smith, in_John, in_PC, in_amt_100),
      provincialCsvRow(in_SMITHERS, in_joanna, in_PC, in_amt_100),
      ("First Name" :> in_John) @@ ("Party" :> in_PC) @@ ("Amount" :> in_amt_100) }
SearchFederal ==
    { federalCsvRow(in_Jones, in_John, str_CPC, in_amt_250),
      federalCsvRow(in_Smith, in_Jo, str_CPC, in_amt_250) }
SearchQueries ==
    { <<>>, q_blank, q_smith, q_Smith_John, q_lead_john, q_smith_jo_x, q_ITH,
      q_smith_tab }

\* totals: rows that differ in their party label and amount
TotalsProvincial ==
    { provincialCsvRow(in_Smith, in_John, in_PC, in_amt_1200_50),
      provincialCsvRow(in_Smith, in_John, in_PC, in_amt_abc),
      provincialCsvRow(in_Smith, in_John, in_NSNDP, in_amt_100),
      provincialCsvRow(in_Smith, in_John, in_ndp, in_amt_100),
      provincialCsvRow(in_Smith, in_John, in_NS_NDP, in_amt_100),
      provincialCsvRow(in_Smith, in_John, in_Liberal, in_amt_neg50),
      provincialCsvRow(in_Smith, in_John, in_LPC_Liberal, in_amt_100),
      provincialCsvRow(in_Smith, in_John, in_Green, in_amt_100),
      provincialCsvRow(in_Smith, in_John, in_Green, in_amt_neg50),
      ("Last Name" :> in_Smith) @@ ("Party" :> in_PC) }
TotalsFederal ==
    { federalCsvRow(in_Smith, in_John, str_CPC, in_amt_250),
      federalCsvRow(in_Smith, in_John, str_LPC, <<>>),
      federalCsvRow(in_Smith, in_John, str_NDP_CA, in_amt_250),
      federalCsvRow(in_Smith, in_John, str_NewDemocraticParty, in_amt_250),
      federalCsvRow(in_Smith, in_John, in_GreenPartyOfCanada, in_amt_250) }
ShowAllQueries == { <<>>, q_s }

\* sorting: rows that differ in the value of the sorted column
SortProvincial ==
    { provincialCsvRow(in_Smith, in_John, in_PC, v) :
        v \in { in_val_1200, in_val_300_50, in_val_300_5, in_val_apple, in_val_12main } }
SortFederal ==
    { federalCsvRow(in_Smith, in_John, str_CPC, v) :
        v \in { in_val_Apple, in_val_10, in_val_20, in_val_a } }

\* normalization: federal rows whose Party and Recipient hold none, one or two
\* of the full party names
in_ConservativeAndLiberal ==
    str_ConservativePartyOfCanada \o <<" ", "/", " ">> \o str_LiberalPartyOfCanada
in_LiberalAndNewDemocratic ==
    str_LiberalPartyOfCanada \o <<" ", "/", " ">> \o str_NewDemocraticParty
in_NewDemocraticAndConservative ==
    str_NewDemocraticParty \o <<" ", "/", " ">> \o str_ConservativePartyOfCanada

federalCsvRowTo(party, recipient) ==
    ("Last Name" :> in_Smith) @@ ("First Name" :> in_John) @@ ("Postal Code" :> in_B3H)
 @@ ("City" :> in_Truro) @@ ("Party" :> party) @@ ("Recipient" :> recipient)
 @@ ("Date_received" :> in_2021_03_04) @@ ("Monetary" :> in_amt_250)

RewriteProvincial ==
    { provincialCsvRow(in_Smith, in_John, in_PC, in_amt_100),
      provincialCsvRow(in_Smith, in_John, str_LiberalPartyOfCanada, in_amt_100) }
RewriteFederal ==
    { federalCsvRowTo(str_ConservativePartyOfCanada, in_CPCHalifax),
      federalCsvRowTo(str_LiberalPartyOfCanada, str_LiberalPartyOfCanada),
      federalCsvRowTo(str_NewDemocraticParty, str_NewDemocraticParty),
      federalCsvRowTo(in_ConservativeAndLiberal, in_ConservativeAndLiberal),
      federalCsvRowTo(in_LiberalAndNewDemocratic, in_LiberalAndNewDemocratic),
      federalCsvRowTo(in_NewDemocraticAndConservative, in_NewDemocraticAndConservative),
      federalCsvRowTo(in_GreenPartyOfCanada, in_HalifaxCampaign),
      ("Last Name" :> in_Smith) @@ ("Monetary" :> in_amt_250) }

\* colors: rows that differ in their party label
in_LPC_Halifax == <<"L", "P", "C", " ", "H", "a", "l", "i", "f", "a", "x">>
ColorProvincial ==
    { provincialCsvRow(in_Smith, in_John, l, in_amt_100) :
        l \in { in_PC, in_NSNDP, in_ndp, in_Liberal, in_Green, in_LPC_Halifax } }
ColorFederal ==
    { federalCsvRow(in_Smith, in_John, l, in_amt_250) :
        l \in { str_CPC, str_LPC, str_NDP_CA } }

\* debounce: two rows and the queries that show both, one or none of them
LiveProvincial == { provincialCsvRow(in_Smith, in_John, in_PC, in_amt_100) }
LiveFederal == { federalCsvRow(in_Jones, in_Jo, str_CPC, in_amt_250) }
LiveQueries == { <<>>, q_s, q_smith }

---------------------------------------------------------------------------
(* Specifications *)

Init == InitOver(MainProvincial, MainFederal, MaxRows)
Next == NextOver(MainQueries, Range(allColumns))
Spec == Init /\ [][Next]_vars

InitSearch == InitOver(SearchProvincial, SearchFederal, MaxRows)
NextSearch == NextOver(SearchQueries, {"Last Name"})
SpecSearch == InitSearch /\ [][NextSearch]_vars

InitTotals == InitOver(TotalsProvincial, TotalsFederal, MaxRows)
NextTotals == NextOver(ShowAllQueries, {"Donation"})
SpecTotals == InitTotals /\ [][NextTotals]_vars

InitSort == InitOver(SortProvincial, SortFederal, MaxSortRows)
NextSort == NextOver(ShowAllQueries, {"Donation"})
SpecSort == InitSort /\ [][NextSort]_vars

InitRewrite == InitOver(RewriteProvincial, RewriteFederal, MaxRows)
NextRewrite == NextOver(ShowAllQueries, {"Party"})
SpecRewrite == InitRewrite /\ [][NextRewrite]_vars

InitColor == InitOver(ColorProvincial, ColorFederal, MaxRows)
NextColor == NextOver(ShowAllQueries, {"Party"})
SpecColor == InitColor /\ [][NextColor]_vars

\* a timer set by setTimeout fires once its delay has elapsed: the step that
\* fires a pending timer is not postponed forever
InitLive == InitOver(LiveProvincial, LiveFederal, MaxRows)
NextLive == NextOver(LiveQueries, {"Last Name", "Donation"})
TimerFires == \E value \in timers : TimerFire(value)
SpecLive == InitLive /\ [][NextLive]_vars /\ WF_vars(TimerFires)

---------------------------------------------------------------------------
(* Vocabulary of the properties *)

RECURSIVE sumSeq(_)
sumSeq(ns) == IF ns = <<>> THEN 0 ELSE Head(ns) + sumSeq(Tail(ns))

\* the rows on display
displayed == sortedFilteredData

\* a query made of white space only (the empty query included)
isBlank(q) == \A i \in 1..Len(q) : q[i] \in WhiteSpace

\* the words of a query: its maximal runs of characters that are not white space
RECURSIVE words(_)
words(q) ==
    IF q = <<>> THEN <<>>
    ELSE IF Head(q) \in WhiteSpace THEN words(Tail(q))
    ELSE LET n == CHOOSE k \in 1..Len(q) :
                     /\ \A i \in 1..k : q[i] \notin WhiteSpace
                     /\ k = Len(q) \/ q[k + 1] \in WhiteSpace
         IN  <<SubSeq(q, 1, n)>> \o words(SubSeq(q, n + 1, Len(q)))

\* the records a query selects, by its first two words
selectedBy(records, q) ==
    LET w == words(q)
        matches(r) ==
            /\ includes(toLowerCase(r["Last Name"]), toLowerCase(w[1]))
            /\ Len(w) >= 2 =>
                 includes(toLowerCase(r["First Name"]), toLowerCase(w[2]))
    IN  SelectSeq(records, matches)

\* a donation string that is empty or does not parse once $ and , are removed
malformedDonation(r) == isNaN(parseFloat(stripMoney(r["Donation"])))

\* the amount of a record, in units of 10^-FracDigits; 0 for a malformed one
amountIn(r) ==
    IF malformedDonation(r) THEN 0 ELSE parseFloat(stripMoney(r["Donation"])).val

label(r) == toLowerCase(r["Party"])

\* the sum of the amounts of the records of rows that satisfy P
amountWhere(rows, P(_)) ==
    LET sel == SelectSeq(rows, P)
    IN  sumSeq([i \in 1..Len(sel) |-> amountIn(sel[i])])

everyRecord(r) == TRUE
exactLabels == { str_pc, str_cpc, str_nsndp, str_ndp_ca, str_ndp }
\* the label matches a rule whose bucket is totalled
aggregatedLabel(r) ==
    label(r) \in exactLabels \/ includes(label(r), str_liberal) \/ includes(label(r), str_lpc)

\* the sum of the seven bucket totals
sumOfTotals ==
    partyTotals.pc.val + partyTotals.cpc.val + partyTotals.nsndp.val
      + partyTotals.ndp.val + partyTotals.ndpca.val + partyTotals.liberal.val
      + partyTotals.lpc.val

---------------------------------------------------------------------------
(* Search *)

\* C1: a query that is empty or made of white space only yields an empty
\* search result: no record is selected and none is displayed.
C1_BlankQueryShowsNothing ==
    isBlank(debouncedSearch) => filteredData = <<>> /\ displayed = <<>>

\* C2: for a query with at least one word, the search returns exactly the
\* records, in their original order, whose lower-cased last name contains the
\* lower-cased first word and, when a second word exists, whose lower-cased
\* first name contains the lower-cased second word; later words have no effect.
C2_SearchByFirstTwoWords ==
    words(debouncedSearch) # <<>> => filteredData = selectedBy(csvData, debouncedSearch)

\* C2 holds of every query that does not begin with white space.
C2_HoldsWithoutLeadingWhiteSpace ==
    (debouncedSearch # <<>> /\ Head(debouncedSearch) \notin WhiteSpace)
        => filteredData = selectedBy(csvData, debouncedSearch)

---------------------------------------------------------------------------
(* Totals *)

\* C3: the exact-equality rules come first and in the declared order, without
\* regard to case: the nsndp total is the sum of the amounts of the displayed
\* records labelled "nsndp", the ndpca total that of the records labelled
\* "ndp-ca" and the ndp total that of the records labelled "ndp"; none of the
\* three labels is counted in another NDP bucket.
C3_ExactNdpLabelsKeepTheirBucket ==
    LET nsndpRecord(r) == label(r) = str_nsndp
        ndpcaRecord(r) == label(r) = str_ndp_ca
        ndpRecord(r) == label(r) = str_ndp
    IN  /\ partyTotals.nsndp = num(amountWhere(displayed, nsndpRecord))
        /\ partyTotals.ndpca = num(amountWhere(displayed, ndpcaRecord))
        /\ partyTotals.ndp = num(amountWhere(displayed, ndpRecord))

\* a record labelled "NSNDP" and one labelled "NDP-CA" are displayed, each
\* with its amount in its own total
C3_Witness ==
    /\ Len(displayed) = 2
    /\ displayed[1]["Party"] = in_NSNDP
    /\ displayed[2]["Party"] = str_NDP_CA
    /\ partyTotals.nsndp.val > 0
    /\ partyTotals.ndpca.val > 0
    /\ partyTotals.ndp.val = 0

\* C4 as stated: every record is added to the bucket of the first rule its
\* label matches and to no other, a record that matches no totalled rule
\* changes no total, and so the sum of the totals never exceeds the sum of
\* the amounts of the records that were aggregated.
C4_SumOfTotalsNeverExceedsAmounts ==
    /\ sumOfTotals = amountWhere(displayed, aggregatedLabel)
    /\ sumOfTotals <= amountWhere(displayed, everyRecord)

\* C4 as amended: every record is added to the bucket of the first rule its
\* label matches and to no other (a label that contains both "liberal" and
\* "lpc" counts as liberal only), and a record that matches no totalled rule
\* changes no total, so the sum of the totals equals the sum of the amounts of
\* the records whose label matches a totalled rule; it does not exceed the sum
\* of the amounts of all aggregated records when no unmatched record has a
\* negative amount.
C4_SumOfTotalsIsSumOfMatched ==
    LET liberalRecord(r) == label(r) \notin exactLabels /\ includes(label(r), str_liberal)
        lpcRecord(r) ==
            /\ label(r) \notin exactLabels
            /\ ~includes(label(r), str_liberal)
            /\ includes(label(r), str_lpc)
        unmatchedNegative(r) == ~aggregatedLabel(r) /\ amountIn(r) < 0
    IN  /\ sumOfTotals = amountWhere(displayed, aggregatedLabel)
        /\ partyTotals.liberal = num(amountWhere(displayed, liberalRecord))
        /\ partyTotals.lpc = num(amountWhere(displayed, lpcRecord))
        /\ SelectSeq(displayed, unmatchedNegative) = <<>>
              => sumOfTotals <= amountWhere(displayed, everyRecord)

\* a record whose label matches two rules and a record that matches none are
\* displayed, both with an amount that is not 0
C4_Witness ==
    /\ Len(displayed) = 2
    /\ displayed[1]["Party"] = in_LPC_Liberal
    /\ displayed[2]["Party"] = in_Green
    /\ amountIn(displayed[1]) > 0
    /\ amountIn(displayed[2]) > 0
    /\ sumOfTotals = amountIn(displayed[1])

\* C5: aggregation never fails on a malformed amount: no total is NaN, and a
\* record whose donation is empty, missing or does not parse adds 0 to the
\* bucket of its label, so the totals are those of the other records alone.
C5_MalformedAmountCountsAsZero ==
    LET wellFormed(r) == ~malformedDonation(r) IN
    /\ \A b \in DOMAIN partyTotals : ~isNaN(partyTotals[b])
    /\ partyTotals = getPartyTotals(SelectSeq(displayed, wellFormed))
    /\ sumOfTotals = amountWhere(displayed, aggregatedLabel)

\* a record of the pc bucket with a donation that does not parse is displayed
\* beside a record of another bucket, whose amount is totalled
C5_Witness ==
    /\ Len(displayed) = 2
    /\ displayed[1]["Party"] = in_PC
    /\ displayed[1]["Donation"] = in_amt_abc
    /\ displayed[2]["Party"] = str_CPC
    /\ partyTotals.pc = num(0)
    /\ partyTotals.cpc.val > 0

---------------------------------------------------------------------------
(* Sort *)

sign(x) == IF x < 0 THEN 0 - 1 ELSE IF x > 0 THEN 1 ELSE 0

\* a field value parses as a number once $ and , are removed
parsesAsNumber(v) == ~isNaN(parseFloat(stripMoney(v)))

\* the order of two field values in an ascending sort: -1, 0 or 1
ascendingOrder(a, b) ==
    IF parsesAsNumber(a) /\ parsesAsNumber(b)
    THEN sign(parseFloat(stripMoney(a)).val - parseFloat(stripMoney(b)).val)
    ELSE IF strLess(toLowerCase(a), toLowerCase(b)) THEN 0 - 1
    ELSE IF strLess(toLowerCase(b), toLowerCase(a)) THEN 1
    ELSE 0

\* the order of two field values under the sort configuration
configuredOrder(a, b) ==
    IF sortConfig.order = "asc" THEN ascendingOrder(a, b) ELSE 0 - ascendingOrder(a, b)

columnValues(rows) == [i \in 1..Len(rows) |-> rows[i][sortConfig.key]]

\* C6: the sorter orders every pair of values of the sorted column by numeric
\* value when both parse as numbers once $ and , are removed, and by the
\* lower-cased original strings otherwise; two displayed rows stand in that
\* order.
C6_NumericOrTextOrder ==
    sortConfig.key # Null =>
      /\ \A i, j \in 1..Len(filteredData) :
            sign(compare(filteredData[i], filteredData[j],
                         sortConfig.key, sortConfig.order))
              = configuredOrder(filteredData[i][sortConfig.key],
                                filteredData[j][sortConfig.key])
      /\ Len(displayed) = 2 =>
            configuredOrder(displayed[1][sortConfig.key],
                            displayed[2][sortConfig.key]) <= 0

\* "$1,200.00", "apple", "$300.50" sorted ascending: the two amounts by value,
\* then the text
C6_Witness ==
    /\ sortConfig = [key |-> "Donation", order |-> "asc"]
    /\ columnValues(filteredData) = <<in_val_1200, in_val_apple, in_val_300_50>>
    /\ columnValues(displayed) = <<in_val_300_50, in_val_1200, in_val_apple>>

\* out holds the rows of inp, those that compare equal in their input order
tiesKeepInputOrder(inp, out) ==
    \E p \in indexPermutations(Len(inp)) :
        /\ out = permute(inp, p)
        /\ \A i, j \in 1..Len(inp) :
              (i < j /\ compare(inp[p[i]], inp[p[j]],
                                sortConfig.key, sortConfig.order) = 0)
                 => p[i] < p[j]

\* C7: sorting is stable and repeatable: records that compare equal on the
\* column keep their input order, and sorting the sorted output again with
\* the same column and direction returns the same sequence.
C7_SortIsStableAndRepeatable ==
    sortConfig.key # Null =>
      /\ tiesKeepInputOrder(filteredData, displayed)
      /\ \A again \in sortData(displayed, sortConfig) : again = displayed

\* C7 holds of every collection on which the comparison is consistent.
C7_HoldsUnderConsistentComparison ==
    (/\ sortConfig.key # Null
     /\ consistentComparator(
            compareTable(filteredData, sortConfig.key, sortConfig.order),
            Len(filteredData)))
      => /\ tiesKeepInputOrder(filteredData, displayed)
         /\ \A again \in sortData(displayed, sortConfig) : again = displayed

\* C8: the active column is the column of the most recent header click; a
\* click on the active column flips the direction and keeps the column; a
\* click on another column makes it active with direction ascending.
C8_HeaderClickToggles ==
    /\ [](sortConfig.key = lastHeader)
    /\ [](sortConfig.key = Null => sortConfig.order = "asc")
    /\ [][sortConfig' # sortConfig =>
            /\ sortConfig'.key = lastHeader'
            /\ IF lastHeader' = sortConfig.key
               THEN sortConfig'.order # sortConfig.order
               ELSE sortConfig'.order = "asc"]_vars

\* a column is sorted descending: it was clicked twice
C8_Witness ==
    /\ sortConfig.key = "Party"
    /\ sortConfig.order = "desc"
    /\ lastHeader = "Party"

---------------------------------------------------------------------------
(* The merged collection and the debounced query *)

\* C9: once the load has completed, no input change, timer or header click
\* changes the merged collection; a header click leaves the rows it sorts as
\* they were (the sort works on a copy), and with no column selected the
\* sorter returns its input in the same order.
C9_MergedCollectionIsNeverChanged ==
    /\ [][loadStage = "done" => csvData' = csvData]_vars
    /\ [][sortConfig' # sortConfig => filteredData' = filteredData]_vars
    /\ [](sortConfig.key = Null => sortedFilteredData = filteredData)

\* the display is sorted into another order than the collection's
C9_Witness ==
    /\ loadStage = "done"
    /\ sortConfig.key # Null
    /\ Len(csvData) = 2
    /\ filteredData = csvData
    /\ sortedFilteredData = <<csvData[2], csvData[1]>>
    /\ csvData[1] # csvData[2]

\* C10: the applied query changes only when the timer of the most recent
\* input change fires, and then becomes the current input value; a pending
\* timer always holds the current input value, every input change having
\* cancelled the timer of the change before.
C10_OnlyTheLatestInputIsApplied ==
    /\ [](\A value \in timers : value = searchTerm)
    /\ [][debouncedSearch' # debouncedSearch =>
            /\ searchTerm \in timers
            /\ debouncedSearch' = searchTerm
            /\ searchTerm' = searchTerm
            /\ timers' = {}]_vars

\* a query is applied and the input has changed again since: the timer of
\* the change is pending
C10_Witness ==
    /\ debouncedSearch = q_Smith_John
    /\ searchTerm = q_smith
    /\ timers = { q_smith }

---------------------------------------------------------------------------
(* C11: the merged collection is assigned at most once, by the callback that
   ends the second load, and in every state it is either empty or the
   normalized provincial rows followed by the normalized federal rows, each
   in file order, none dropped; it never holds one source alone. *)

normalizedProvincial ==
    [i \in 1..Len(provincialResults) |-> provincialRow(provincialResults[i])]
normalizedFederal ==
    [i \in 1..Len(federalResults) |-> federalRow(federalResults[i])]

C11_MergedOnceFromBothSources ==
    /\ [](\/ csvData = <<>>
          \/ /\ loadStage = "done"
             /\ csvData = normalizedProvincial \o normalizedFederal)
    /\ [][/\ csvData' # csvData => (loadStage = "federal" /\ loadStage' = "done")
          /\ loadStage = "done" => loadStage' = "done"]_vars

\* both files had rows and the load is over
C11_Witness ==
    /\ loadStage = "done"
    /\ Len(provincialResults) >= 1
    /\ Len(federalResults) >= 1
    /\ Len(csvData) = Len(provincialResults) + Len(federalResults)

---------------------------------------------------------------------------
(* C12: every normalized record, of either source and whatever columns its
   raw row has, has exactly the eight unified columns as keys and a string
   under each; a column the raw row lacks gives the empty string, and Postal
   Code is empty for every provincial record. *)

isString(v) == v \in Seq(Chars)

\* the raw column each unified column is read from
provincialColumn ==
    ("Last Name" :> "Last Name") @@ ("First Name" :> "First Name")
 @@ ("City" :> "Town") @@ ("Party" :> "Party")
 @@ ("Specific Campaign" :> "Specific Campaign") @@ ("Date" :> "Year")
 @@ ("Donation" :> "Amount")
federalColumn ==
    ("Last Name" :> "Last Name") @@ ("First Name" :> "First Name")
 @@ ("Postal Code" :> "Postal Code") @@ ("City" :> "City") @@ ("Party" :> "Party")
 @@ ("Specific Campaign" :> "Recipient") @@ ("Date" :> "Date_received")
 @@ ("Donation" :> "Monetary")

fullRecord(r) ==
    /\ DOMAIN r = Range(allColumns)
    /\ \A k \in DOMAIN r : isString(r[k])

missingGivesEmpty(raw, r, column) ==
    \A k \in DOMAIN column : column[k] \notin DOMAIN raw => r[k] = <<>>

C12_NormalizedRecordIsFull ==
    /\ \A i \in 1..Len(provincialData) :
          /\ fullRecord(provincialData[i])
          /\ missingGivesEmpty(provincialResults[i], provincialData[i], provincialColumn)
          /\ provincialData[i]["Postal Code"] = <<>>
    /\ loadStage = "done" =>
          /\ Len(csvData) = Len(provincialResults) + Len(federalResults)
          /\ \A i \in 1..Len(csvData) : fullRecord(csvData[i])
          /\ \A i \in 1..Len(provincialResults) :
                /\ missingGivesEmpty(provincialResults[i], csvData[i], provincialColumn)
                /\ csvData[i]["Postal Code"] = <<>>
          /\ \A i \in 1..Len(federalResults) :
                missingGivesEmpty(federalResults[i],
                                  csvData[Len(provincialResults) + i], federalColumn)

\* a raw row of each source lacks columns and both have been normalized
C12_Witness ==
    /\ loadStage = "done"
    /\ \E i \in 1..Len(provincialResults) : "Amount" \notin DOMAIN provincialResults[i]
    /\ \E i \in 1..Len(federalResults) : "Party" \notin DOMAIN federalResults[i]

---------------------------------------------------------------------------
(* Vocabulary of the normalization properties *)

\* the rewrite rules in their declared order: full party name, abbreviation
rewriteRules ==
    << <<str_ConservativePartyOfCanada, str_CPC>>,
       <<str_LiberalPartyOfCanada, str_LPC>>,
       <<str_NewDemocraticParty, str_NDP_CA>> >>

\* the rules whose full name the label contains
matching(l) == { k \in 1..Len(rewriteRules) : includes(l, rewriteRules[k][1]) }
firstOf(m) == CHOOSE k \in m : \A j \in m : k <= j

\* the label the raw row carries in a column
rawLabel(row, column) == orElse(field(row, column), <<>>)

\* the normalized record of the i-th federal row
federalRecord(i) == csvData[Len(provincialResults) + i]

\* the rewritten fields: raw column, unified column
categoryField == <<"Party", "Party">>
recipientField == <<"Recipient", "Specific Campaign">>

rewrittenToOnlyMatch(i, f) ==
    LET l == rawLabel(federalResults[i], f[1])
    IN  \A k \in matching(l) :
            matching(l) = {k} => federalRecord(i)[f[2]] = rewriteRules[k][2]

rewrittenToFirstMatch(i, f) ==
    LET l == rawLabel(federalResults[i], f[1])
    IN  (\E j, k \in matching(l) : j # k) =>
            federalRecord(i)[f[2]] = rewriteRules[firstOf(matching(l))][2]

(* C13: for every federal row, a Party label and a Recipient label that
   contains a known full party name is replaced, in the normalized record, by
   that party's abbreviation (CPC, LPC, NDP-CA). *)
C13_BothFieldsAreRewritten ==
    loadStage = "done" =>
        \A i \in 1..Len(federalResults) :
            /\ rewrittenToOnlyMatch(i, categoryField)
            /\ rewrittenToOnlyMatch(i, recipientField)

\* the part of C13 that holds: the Party field, and a Recipient that contains
\* the Conservative name
C13_HoldsForPartyAndConservativeRecipient ==
    loadStage = "done" =>
        \A i \in 1..Len(federalResults) :
            /\ rewrittenToOnlyMatch(i, categoryField)
            /\ includes(rawLabel(federalResults[i], "Recipient"),
                        str_ConservativePartyOfCanada)
                  => federalRecord(i)["Specific Campaign"] = str_CPC

(* C14: when a federal label contains two or more known full party names,
   the normalized field is the abbreviation of the first rule, in the order
   Conservative, Liberal, New Democratic, that matches the raw label. *)
C14_FirstRewriteRuleWins ==
    loadStage = "done" =>
        \A i \in 1..Len(federalResults) :
            /\ rewrittenToFirstMatch(i, categoryField)
            /\ rewrittenToFirstMatch(i, recipientField)

\* the part of C14 that holds: the Party field
C14_HoldsForPartyField ==
    loadStage = "done" =>
        \A i \in 1..Len(federalResults) : rewrittenToFirstMatch(i, categoryField)

\* a Party label with two names, the later rule's name first, was normalized
C14_PartyFieldReached ==
    /\ loadStage = "done"
    /\ \E i \in 1..Len(federalResults) :
          rawLabel(federalResults[i], "Party") = in_NewDemocraticAndConservative

---------------------------------------------------------------------------
(* Vocabulary of the color property *)

\* the buckets the aggregator adds a record to
bucketsOf(r) ==
    LET one == [r EXCEPT !["Donation"] = <<"1">>]
    IN  { k \in DOMAIN zeroTotals : addRow(zeroTotals, one)[k] # zeroTotals[k] }

(* C15: the color of a displayed row follows the aggregator's classification:
   two records of the same bucket have the same color, every record counted
   in a bucket has a color, and two records of different exact-match buckets
   have different colors. *)
C15_ColorFollowsAggregation ==
    \A i, j \in 1..Len(displayed) :
        LET ri == displayed[i]
            rj == displayed[j]
        IN  /\ (bucketsOf(ri) # {} /\ bucketsOf(ri) = bucketsOf(rj))
                  => rowColor(ri) = rowColor(rj)
            /\ bucketsOf(ri) # {} => rowColor(ri) # ""
            /\ (label(ri) \in exactLabels /\ label(rj) \in exactLabels
                   /\ bucketsOf(ri) # bucketsOf(rj))
                  => rowColor(ri) # rowColor(rj)

\* the part of C15 that holds: outside the lpc bucket, records of one bucket
\* have one color and it is not empty
C15_HoldsOutsideLpcBucket ==
    \A i, j \in 1..Len(displayed) :
        LET ri == displayed[i]
            rj == displayed[j]
        IN  (bucketsOf(ri) # {} /\ bucketsOf(ri) # {"lpc"}) =>
                /\ rowColor(ri) # ""
                /\ bucketsOf(ri) = bucketsOf(rj) => rowColor(ri) = rowColor(rj)

---------------------------------------------------------------------------
(* C16: once the input stops changing, the applied query eventually equals
   the input's value and stays equal to it for as long as the input does not
   change; an input that stays cleared eventually leaves nothing displayed. *)
C16_AppliedQueryCatchesUp ==
    /\ \A v \in LiveQueries :
          <>[](searchTerm = v) => <>[](debouncedSearch = v)
    /\ <>[](searchTerm = <<>>) => <>[](displayed = <<>>)
    /\ [][(debouncedSearch = searchTerm /\ searchTerm' = searchTerm)
            => debouncedSearch' = searchTerm']_vars

\* the input was cleared after a query had been applied (a header was
\* clicked while rows were shown), and the empty query has been applied
C16_Witness ==
    /\ loadStage = "done"
    /\ csvData # <<>>
    /\ sortConfig.key # Null
    /\ searchTerm = <<>>
    /\ debouncedSearch = <<>>
    /\ timers = {}
    /\ displayed = <<>>

---------------------------------------------------------------------------
(* C17: in every state, whatever the order of load completion, input
   changes, timer firings and header clicks that led to it, the displayed
   rows are the sort, under the current sort selection, of the search of the
   merged collection for the applied query, and the totals are the
   aggregation of the displayed rows; a header click changes neither which
   records are displayed nor the totals. *)

sameRecords(a, b) ==
    /\ Len(a) = Len(b)
    /\ \E q \in indexPermutations(Len(a)) : permute(a, q) = b

C17_ViewsAreRecomputedFromCurrentInputs ==
    /\ [](/\ filteredData = filteredDataOf(debouncedSearch, csvData)
          /\ sortData(filteredData, sortConfig) = { displayed }
          /\ partyTotals = getPartyTotals(displayed))
    /\ [][sortConfig' # sortConfig =>
            /\ sameRecords(displayed, displayed')
            /\ partyTotals' = partyTotals]_vars

\* the load is over, a query is applied and a header click has put the two
\* rows it selects in another order than the merged collection has them
C17_Witness ==
    /\ loadStage = "done"
    /\ debouncedSearch = q_smith
    /\ sortConfig.key # Null
    /\ Len(displayed) = 2
    /\ displayed # filteredData

---------------------------------------------------------------------------
(* C18: the sorter's comparison is a consistent order of the values it is
   given, numeric-parsable and not: in either direction, if a is ordered
   before b and b before c then a is ordered before c, and compare(a, b) is
   the negation of compare(b, a). *)

\* the tables of the comparison's results on the rows handed to the sorter,
\* one for each direction
comparisonTables ==
    IF sortConfig.key = Null THEN {}
    ELSE { compareTable(filteredData, sortConfig.key, order) : order \in {"asc", "desc"} }

C18_ComparisonIsConsistentOrder ==
    \A c \in comparisonTables :
        \A i, j, k \in DOMAIN c :
            /\ (c[i][j] < 0 /\ c[j][k] < 0) => c[i][k] < 0
            /\ c[i][j] = 0 - c[j][i]

\* the part of C18 that holds: compare(a, b) is the negation of compare(b, a)
C18_NegationHolds ==
    \A c \in comparisonTables :
        \A i, j \in DOMAIN c : c[i][j] = 0 - c[j][i]

====
